---------------------------- MODULE Spec2Model ----------------------------
(***************************************************************************)
(* Model of the dual-backend provisioning layer of admin_alongside_bot:    *)
(*   VlessClient  (src/vless_api.py)   - backend A, 3x-ui panel, cookie    *)
(*   MarzbanClient (src/marzban_api.py) - backend B, Marzban, bearer token *)
(*   the facade handlers of src/bot.py.                                    *)
(*                                                                         *)
(* A step of the model is the code between two suspension points of a      *)
(* coroutine: the only points where a coroutine yields to the event loop   *)
(* are the awaited HTTP calls (http_client.post in login,                  *)
(* http_client.request in _request).  Awaiting _ensure_logged_in or login  *)
(* does not yield by itself.                                               *)
(***************************************************************************)
EXTENDS Integers, Sequences, FiniteSets, TLC

\* ------------------------------------------------------------------ bounds
\* Total number of _request calls started by the concurrent callers.
MaxCalls == 2
\* Number of updates the bot handles.
MaxUpdates == 3
\* Number of protocols in an answer of GET /inbounds.
MaxCatalog == 2
\* Largest data cap given to the clients' creation calls, in half GB.
MaxHalfGb == 4
\* Number of pieces of a subscription URL in an answer of POST /user.
MaxUrlLen == 2

\* --------------------------------------------------------------- constants
Backends == {"vless", "marzban"}
\* The coroutines that call _request directly on one client instance.
Callers == {"c1", "c2"}
\* The facade's handler coroutine (the bot processes one update at a time).
Bot == "bot"
Tasks == Callers \cup {Bot}

\* The value of session_cookie / access_token when it is None or empty.
NoSession == 0

VARIABLES
    session,    \* [Backends -> Nat]  VlessClient.session_cookie / MarzbanClient.access_token
    rpc,        \* [Tasks -> position inside _request]
    tb,         \* [Tasks -> backend of the client the task calls]
    carried,    \* [Tasks -> session value attached to the request in flight]
    ev,         \* [Tasks -> events of the task's current _request call]
    rres,       \* [Tasks -> what _request returned or raised]
    calls,      \* number of _request calls started by the callers
    client,     \* the client instance the concurrent callers share
    fpc,        \* the await the facade's handler is suspended at ("idle": none runs)
    ud,         \* context.user_data: pending_action, pending_plan, pending_plan_info
    fl,         \* local variables of the running handler and of the client method it awaits
    report,     \* the final outcome messages the running handler has sent
    updates,    \* number of updates handled so far
    inbound_ids \* config.VLESS_INBOUND_IDS

execVars == <<session, rpc, tb, carried, ev, rres>>
facadeVars == <<fpc, ud, fl, report, updates, inbound_ids>>
vars == <<session, rpc, tb, carried, ev, rres, calls, client,
          fpc, ud, fl, report, updates, inbound_ids>>

\* ------------------------------------------------------- the environment
\* What the panel can answer to a login (login, both clients):
\*   ok        success, with a session value
\*   ok_empty  success, but no cookie / no access_token in the answer
\*   rejected  success false / status other than 200
\*   err       transport error or undecodable answer (exception in login)
LoginOutcomes == {"ok", "ok_empty", "rejected", "err"}

\* What the panel can answer to an authenticated request:
\*   ok              accepted (success true / status 200, 201)
\*   rej             rejected for a reason that is not the session
\*   expired         rejected because the session is not valid
\*                   (3x-ui: success false with a login message; Marzban: 401)
\*   rej_login_text  3x-ui only: rejected for another reason, with a message
\*                   that happens to contain the text "login"
\*   rej_nomsg       3x-ui only: rejected, the answer has no "msg"
\*   err             transport error or undecodable answer (exception)
RespKinds(b) ==
    IF b = "vless" THEN {"ok", "rej", "expired", "rej_login_text", "rej_nomsg", "err"}
    ELSE {"ok", "rej", "expired", "err"}

\* The "msg" of a 3x-ui answer of kind r; NoMsg when the answer has none.
NoMsg == "<absent>"
AnswerMsg(r) ==
    CASE r = "rej" -> "Duplicate email"
      [] r = "expired" -> "Please login"
      [] r = "rej_login_text" -> "Duplicate login name"
      [] OTHER -> NoMsg

Ev(e, s) == [e |-> e, s |-> s]

\* The session values of backend b that some variable still holds.
Referenced(b) ==
    {session[b]}
    \cup {carried[t] : t \in {u \in Tasks : tb[u] = b}}
    \cup UNION {{ev[t][i].s : i \in 1..Len(ev[t])} : t \in {u \in Tasks : tb[u] = b}}

\* The panel never issues the same session value twice.  The model names a
\* newly issued value by the least positive number that no variable holds
\* any more, so that values stay small; only equality of values is observed.
FreshSession(b) ==
    CHOOSE v \in 1..(Cardinality(Referenced(b)) + 1) :
        /\ v \notin Referenced(b)
        /\ \A w \in 1..(v - 1) : w \in Referenced(b)

\* ---------------------------------------------------------------- _request
\* The test _request applies to an answer to decide "session expired":
\* vless: not result.get("success") and "login" in msg.lower(); marzban: 401.
SessionInvalidSignal(b, r) ==
    IF b = "vless" THEN r \in {"expired", "rej_login_text"}
    ELSE r = "expired"

\* _request up to its first suspension: _ensure_logged_in, then either the
\* login is awaited or the request is sent with the stored session.
Request_Begin(t, b) ==
    /\ tb' = [tb EXCEPT ![t] = b]
    /\ rres' = [rres EXCEPT ![t] = "none"]
    /\ IF session[b] = NoSession
       THEN /\ rpc' = [rpc EXCEPT ![t] = "login1"]
            /\ ev' = [ev EXCEPT ![t] = <<Ev("login", NoSession)>>]
            /\ UNCHANGED carried
       ELSE /\ rpc' = [rpc EXCEPT ![t] = "req1"]
            /\ carried' = [carried EXCEPT ![t] = session[b]]
            /\ ev' = [ev EXCEPT ![t] = <<Ev("send", session[b])>>]
    /\ UNCHANGED session

\* Faulty variant of LoginFailed: the result of login is ignored and the
\* request is sent with whatever session is stored.
MutLoginFailedSendsAnyway(t) ==
    /\ rpc' = [rpc EXCEPT ![t] = IF rpc[t] = "login1" THEN "req1" ELSE "req2"]
    /\ carried' = [carried EXCEPT ![t] = session[tb[t]]]
    /\ ev' = [ev EXCEPT ![t] = @ \o <<Ev("login_fail", NoSession),
                                      Ev("send", session[tb[t]])>>]
    /\ UNCHANGED <<session, rres>>

\* login fails: it returns False and _ensure_logged_in raises; _request
\* lets the exception through (the second one is logged and re-raised).
LoginFailed(t) ==
    /\ rpc' = [rpc EXCEPT ![t] = "raised"]
    /\ rres' = [rres EXCEPT ![t] = "exc_auth"]
    /\ ev' = [ev EXCEPT ![t] = @ \o <<Ev("login_fail", NoSession)>>]
    /\ UNCHANGED <<session, carried>>

\* login succeeds: it stores the session it was given (None when the answer
\* has none) and returns True; _request reads the stored session and sends.
LoginSucceeded(t, s) ==
    /\ session' = [session EXCEPT ![tb[t]] = s]
    /\ rpc' = [rpc EXCEPT ![t] = IF rpc[t] = "login1" THEN "req1" ELSE "req2"]
    /\ carried' = [carried EXCEPT ![t] = s]
    /\ ev' = [ev EXCEPT ![t] = @ \o <<Ev("login_ok", s), Ev("send", s)>>]
    /\ UNCHANGED rres

\* The awaited login of _ensure_logged_in completes with outcome o.
Request_LoginDone(t, o) ==
    /\ rpc[t] \in {"login1", "login2"}
    /\ CASE o = "ok" ->
              LoginSucceeded(t, FreshSession(tb[t]))
         [] o = "ok_empty" ->
              LoginSucceeded(t, NoSession)
         [] OTHER ->
              LoginFailed(t)
    /\ UNCHANGED <<tb, calls, client>>

\* Faulty variant of ReturnAnswer: an exception resets the stored session.
MutReturnAnswerDropsSession(t, r) ==
    /\ rpc' = [rpc EXCEPT ![t] = IF r = "err" THEN "raised" ELSE "ret"]
    /\ rres' = [rres EXCEPT ![t] = IF r = "err" THEN "exc_transport" ELSE r]
    /\ ev' = [ev EXCEPT ![t] = @ \o <<Ev("resp_" \o r, carried[t])>>]
    /\ session' = [session EXCEPT ![tb[t]] = IF r = "err" THEN NoSession ELSE @]
    /\ UNCHANGED carried

\* The answer is returned to the caller of _request (or raised, for err).
ReturnAnswer(t, r) ==
    /\ rpc' = [rpc EXCEPT ![t] = IF r = "err" THEN "raised" ELSE "ret"]
    /\ rres' = [rres EXCEPT ![t] = IF r = "err" THEN "exc_transport" ELSE r]
    /\ ev' = [ev EXCEPT ![t] = @ \o <<Ev("resp_" \o r, carried[t])>>]
    /\ UNCHANGED <<session, carried>>

\* Faulty variant of DiscardAndRelogin: the stored session is not set to
\* None, so _ensure_logged_in finds one and the retry carries it.
MutReloginKeepsSession(t, r) ==
    /\ rpc' = [rpc EXCEPT ![t] = "req2"]
    /\ carried' = [carried EXCEPT ![t] = session[tb[t]]]
    /\ ev' = [ev EXCEPT ![t] = @ \o <<Ev("resp_" \o r, carried[t]),
                                      Ev("send", session[tb[t]])>>]
    /\ UNCHANGED <<session, rres>>

\* "If session expired, re-login and retry": the stored session is set to
\* None and _ensure_logged_in starts a login.
DiscardAndRelogin(t, r) ==
    /\ session' = [session EXCEPT ![tb[t]] = NoSession]
    /\ rpc' = [rpc EXCEPT ![t] = "login2"]
    /\ ev' = [ev EXCEPT ![t] = @ \o <<Ev("resp_" \o r, carried[t]),
                                      Ev("discard", NoSession),
                                      Ev("login", NoSession)>>]
    /\ UNCHANGED <<carried, rres>>

\* Faulty variant of Request_Answer1: an exception of the first attempt is
\* handled like a session-invalid answer.
MutAnswer1RetriesOnError(t, r) ==
    /\ rpc[t] = "req1"
    /\ IF r = "err" \/ SessionInvalidSignal(tb[t], r)
       THEN DiscardAndRelogin(t, r)
       ELSE ReturnAnswer(t, r)
    /\ UNCHANGED <<tb, calls, client>>

\* The answer to the first attempt arrives.
Request_Answer1(t, r) ==
    /\ rpc[t] = "req1"
    /\ IF r # "err" /\ SessionInvalidSignal(tb[t], r)
       THEN DiscardAndRelogin(t, r)
       ELSE ReturnAnswer(t, r)
    /\ UNCHANGED <<tb, calls, client>>

\* Faulty variant of Request_Answer2: the retried attempt is treated like
\* the first one (a retry loop).
MutAnswer2RetriesAgain(t, r) ==
    /\ rpc[t] = "req2"
    /\ IF r # "err" /\ SessionInvalidSignal(tb[t], r)
       THEN DiscardAndRelogin(t, r)
       ELSE ReturnAnswer(t, r)
    /\ UNCHANGED <<tb, calls, client>>

\* The answer to the retried attempt arrives: it is returned whatever it is.
Request_Answer2(t, r) ==
    /\ rpc[t] = "req2"
    /\ ReturnAnswer(t, r)
    /\ UNCHANGED <<tb, calls, client>>

\* The frame of a finished _request call is gone.
Request_Clear(t) ==
    /\ rpc' = [rpc EXCEPT ![t] = "idle"]
    /\ ev' = [ev EXCEPT ![t] = <<>>]
    /\ carried' = [carried EXCEPT ![t] = NoSession]
    /\ rres' = [rres EXCEPT ![t] = "none"]
    /\ UNCHANGED <<session, tb>>

\* ------------------------------------------------------------- plan tables
VlessPlanKeys == {"vless_basic", "vless_silver", "vless_golden", "vless_trial"}
OutlinePlanKeys == {"outline_basic", "outline_silver", "outline_golden", "outline_trial"}

\* data_gb is 0 or 0.5 in the tables: it is kept in units of half a GB.
VLESS_PLANS(k) ==
    CASE k = "vless_basic"  -> [devices |-> 1, data_half_gb |-> 0, expiry_days |-> 30]
      [] k = "vless_silver" -> [devices |-> 2, data_half_gb |-> 0, expiry_days |-> 30]
      [] k = "vless_golden" -> [devices |-> 3, data_half_gb |-> 0, expiry_days |-> 30]
      [] k = "vless_trial"  -> [devices |-> 1, data_half_gb |-> 1, expiry_days |-> 1]

OUTLINE_PLANS(k) ==
    CASE k = "outline_basic"  -> [data_half_gb |-> 0, expiry_days |-> 30, keys |-> 1]
      [] k = "outline_silver" -> [data_half_gb |-> 0, expiry_days |-> 30, keys |-> 2]
      [] k = "outline_golden" -> [data_half_gb |-> 0, expiry_days |-> 30, keys |-> 3]
      [] k = "outline_trial"  -> [data_half_gb |-> 1, expiry_days |-> 1, keys |-> 1]

\* plan_info.get("keys", 1)
KeyCount(k) == IF k \in OutlinePlanKeys THEN OUTLINE_PLANS(k).keys ELSE 1

\* The plan_info dict kept in user_data under "pending_plan_info".
PlanInfo(k) == IF k \in VlessPlanKeys THEN VLESS_PLANS(k) ELSE OUTLINE_PLANS(k)

\* ---------------------------------------------------------------- data cap
\* A cap of h half-GB stands for the Python number h / 2, and x * (h / 2) is
\* computed as (x * h) / 2, which is exact for these values.  Byte counts
\* are kept in MiB (units of 1024 * 1024 bytes), so that the code's factor
\* 1024 * 1024 * 1024 is the number BytesPerGB here.
BytesPerGB == 1024

\* Faulty variant of TotalBytes: the cap is truncated to whole GB first.
MutTotalBytesTruncates(half_gb) ==
    IF half_gb \div 2 > 0 THEN (half_gb \div 2) * BytesPerGB ELSE 0

\* create_client: total_gb * 1024 * 1024 * 1024 if total_gb > 0 else 0
TotalBytes(half_gb) ==
    IF half_gb > 0 THEN (half_gb * BytesPerGB) \div 2 ELSE 0

\* create_user: data_limit_gb * 1024 * 1024 * 1024 if data_limit_gb > 0 else 0
DataLimitBytes(half_gb) ==
    IF half_gb > 0 THEN (half_gb * BytesPerGB) \div 2 ELSE 0

\* data_text of both handlers' summaries: "Unlimited", or
\* f"{int(data_gb * 1024)} MB".
DataText(half_gb) ==
    IF half_gb = 0 THEN [text |-> "Unlimited", mb |-> 0]
    ELSE [text |-> "MB", mb |-> (half_gb * 1024) \div 2]

\* ------------------------------------------------------------------ expiry
\* Times are kept in units of 100 s, so that the code's 86400 (the seconds
\* of a day) is the number SecondsPerDay here.  A reading of time.time() is a
\* count of thousandths of that unit: the float's fraction, to the
\* resolution that the factor 1000 of create_client keeps.
SecondsPerDay == 864
MillisPerSecond == 1000

\* Faulty variant of ExpiryTime: the factor 1000 is left out.
MutExpiryTimeInSeconds(now, expiry_days) ==
    (now + expiry_days * SecondsPerDay * MillisPerSecond) \div MillisPerSecond

\* create_client: int((time.time() + expiry_days * 86400) * 1000)
ExpiryTime(now, expiry_days) ==
    now + expiry_days * SecondsPerDay * MillisPerSecond

\* create_user: int(time.time() + expiry_days * 86400)
ExpiryTimestamp(now, expiry_days) ==
    (now + expiry_days * SecondsPerDay * MillisPerSecond) \div MillisPerSecond

\* The reading of time.time() in the facade's runs.
ClockReadings == {1500}

\* config.ADMIN_IDS and the users that send updates.
Users == {"admin", "guest"}
ADMIN_IDS == {"admin"}
is_admin(user_id) == user_id \in ADMIN_IDS

\* config.VLESS_INBOUND_IDS: plan key -> inbound id.  bot.py reads it with
\* .get(plan_key) and handles a missing key; both cases are configurations.
InboundIdConfigs ==
    { [vless_basic |-> 1, vless_silver |-> 2, vless_golden |-> 3, vless_trial |-> 4],
      [vless_basic |-> 1, vless_silver |-> 2, vless_golden |-> 3] }

NoPending == [action |-> "none", plan |-> "none", info |-> "none"]

\* uuid.uuid4(): a random identifier.
Uuids == {"uuid_a", "uuid_b"}

\* ------------------------------------------------ create_user: the catalog
\* An answer of GET /inbounds: a JSON value that is a mapping
\* protocol name -> list of inbounds, or is not a mapping.  An inbound of the
\* list is a dict with a "tag", a dict without one, or a plain string.
TagDict(n) == [kind |-> "dict", tag |-> n]
TagStr(n) == [kind |-> "str", tag |-> n]
TaglessDict == [kind |-> "dict", tag |-> "none"]
CatalogEntry(n, tags) == [name |-> n, tags |-> tags]
DictCatalog(entries) == [isDict |-> TRUE, entries |-> entries]
NotADict == [isDict |-> FALSE, entries |-> <<>>]
EmptyCatalog == DictCatalog(<<>>)

KnownProtocols == {"shadowsocks", "vless", "vmess", "trojan"}
\* Protocol names an answer may use: the known ones, two of them spelled with
\* capitals, and one the code does not know.
ProtocolNames == KnownProtocols \cup {"VMess", "Shadowsocks", "http"}

\* str.lower() on the protocol names.
Lower(n) ==
    CASE n = "VMess" -> "vmess"
      [] n = "Shadowsocks" -> "shadowsocks"
      [] OTHER -> n

\* The settings object create_user gives a protocol.
DefaultSettings(p) ==
    CASE p = "shadowsocks" -> "{}"
      [] p = "vless" -> "{flow: ''}"
      [] p = "vmess" -> "{}"
      [] p = "trojan" -> "{password: ''}"

\* tag.get("tag", tag) if isinstance(tag, dict) else tag; "<dict>" stands for
\* the dict itself.
TagOf(x) ==
    IF x.kind = "dict"
    THEN (IF x.tag # "none" THEN x.tag ELSE "<dict>")
    ELSE x.tag

NoConfig == [proxies |-> <<>>, inbounds |-> <<>>]

\* Faulty variant of AddProtocol: the shadowsocks default is always added.
MutAddProtocolKeepsShadowsocks(cfg, protocol, tags) ==
    LET p == Lower(protocol) IN
    IF p \in KnownProtocols
    THEN [proxies |-> (p :> DefaultSettings(p)) @@ ("shadowsocks" :> "{}") @@ cfg.proxies,
          inbounds |-> (p :> [i \in 1..Len(tags) |-> TagOf(tags[i])]) @@ cfg.inbounds]
    ELSE cfg

\* One iteration of `for protocol, tags in inbounds.items()`.
AddProtocol(cfg, protocol, tags) ==
    LET p == Lower(protocol) IN
    IF p \in KnownProtocols
    THEN [proxies |-> (p :> DefaultSettings(p)) @@ cfg.proxies,
          inbounds |-> (p :> [i \in 1..Len(tags) |-> TagOf(tags[i])]) @@ cfg.inbounds]
    ELSE cfg

RECURSIVE ScanCatalog(_, _)
ScanCatalog(entries, cfg) ==
    IF entries = <<>> THEN cfg
    ELSE ScanCatalog(Tail(entries),
                     AddProtocol(cfg, Head(entries).name, Head(entries).tags))

\* proxies and inbound_config as create_user builds them from the answer.
\* Faulty variant of BuildProxyConfig: no fallback when nothing was found.
MutBuildProxyConfigNoFallback(inbounds) ==
    IF inbounds.isDict THEN ScanCatalog(inbounds.entries, NoConfig) ELSE NoConfig

BuildProxyConfig(inbounds) ==
    LET found == IF inbounds.isDict THEN ScanCatalog(inbounds.entries, NoConfig)
                 ELSE NoConfig
    IN  IF DOMAIN found.proxies = {}
        THEN [proxies |-> ("shadowsocks" :> "{}"), inbounds |-> <<>>]
        ELSE found

\* The catalogs the panel answers with in the facade's runs.
Catalogs ==
    { DictCatalog(<<CatalogEntry("vmess", <<TagDict("t1")>>)>>),
      DictCatalog(<<CatalogEntry("Shadowsocks", <<TagStr("t2")>>),
                    CatalogEntry("http", <<TagDict("t3")>>)>>),
      DictCatalog(<<CatalogEntry("http", <<TagStr("t3")>>)>>),
      NotADict }

\* ---------------------------------------------------------- get_client_link
\* A JSON member that may be absent: Some(v) or None; d.get(key, default).
Some(v) == <<v>>
None == <<>>
Get(o, default) == IF o = None THEN default ELSE o[1]

\* sep.join(strs)
RECURSIVE JoinWith(_, _)
JoinWith(strs, sep) ==
    IF strs = <<>> THEN ""
    ELSE IF Len(strs) = 1 THEN strs[1]
    ELSE strs[1] \o sep \o JoinWith(Tail(strs), sep)

\* config.VLESS_PANEL_URL (its default), as the pieces that
\* split("://") and split(":") cut it into.
VLESS_PANEL_URL ==
    [scheme |-> "http", rest |-> <<"68.183.184.161", "1200/leeblyaml">>]

\* server_address = VLESS_PANEL_URL.split("://")[1].split(":")[0]
server_address == VLESS_PANEL_URL.rest[1]

\* The "obj" of an answer of GET /get/{id}: port, remark and the members of
\* the decoded streamSettings that get_client_link reads.  decodable tells
\* whether json.loads accepts the streamSettings string.
EmptyInbound ==
    [decodable |-> TRUE, port |-> None, remark |-> None,
     network |-> None, security |-> None,
     ws_path |-> None, ws_host |-> None, grpc_service |-> None,
     tcp_header |-> None,
     tls_sni |-> None, tls_fp |-> None, tls_alpn |-> <<>>,
     r_pbk |-> None, r_fp |-> None, r_names |-> <<>>, r_sids |-> <<>>,
     r_spx |-> None]

\* One element of params: f"{k}={v}".
Param(k, v) == [k |-> k, v |-> v]

\* "Add network-specific params"
TransportParams(c) ==
    LET network == Get(c.network, "tcp")
    IN  IF network = "ws"
        THEN <<Param("path", Get(c.ws_path, "/")),
               Param("host", Get(c.ws_host, server_address))>>
        ELSE IF network = "grpc"
        THEN <<Param("serviceName", Get(c.grpc_service, ""))>>
        ELSE IF network = "tcp"
        THEN <<Param("headerType", Get(c.tcp_header, "none"))>>
        ELSE <<>>

\* Faulty variant of SecurityParams: fp is added whether empty or not.
MutSecurityParamsAlwaysFp(c) ==
    LET security == Get(c.security, "none")
    IN  IF security = "tls"
        THEN <<Param("sni", Get(c.tls_sni, server_address)),
               Param("fp", Get(c.tls_fp, ""))>>
             \o (IF JoinWith(c.tls_alpn, ",") # ""
                 THEN <<Param("alpn", JoinWith(c.tls_alpn, ","))>> ELSE <<>>)
        ELSE IF security = "reality"
        THEN <<Param("sni", IF c.r_names # <<>> THEN c.r_names[1] ELSE ""),
               Param("fp", Get(c.r_fp, "chrome")),
               Param("pbk", Get(c.r_pbk, ""))>>
        ELSE <<>>

\* "Add TLS/reality params"
SecurityParams(c) ==
    LET security == Get(c.security, "none")
    IN  IF security = "tls"
        THEN LET sni == Get(c.tls_sni, server_address)
                 fp == Get(c.tls_fp, "")
                 alpn == JoinWith(c.tls_alpn, ",")
             IN  <<Param("sni", sni)>>
                 \o (IF fp # "" THEN <<Param("fp", fp)>> ELSE <<>>)
                 \o (IF alpn # "" THEN <<Param("alpn", alpn)>> ELSE <<>>)
        ELSE IF security = "reality"
        THEN LET pbk == Get(c.r_pbk, "")
                 fp == Get(c.r_fp, "chrome")
                 sni == IF c.r_names # <<>> THEN c.r_names[1] ELSE ""
                 sid == IF c.r_sids # <<>> THEN c.r_sids[1] ELSE ""
                 spx == Get(c.r_spx, "")
             IN  <<Param("sni", sni), Param("fp", fp), Param("pbk", pbk)>>
                 \o (IF sid # "" THEN <<Param("sid", sid)>> ELSE <<>>)
                 \o (IF spx # "" THEN <<Param("spx", spx)>> ELSE <<>>)
        ELSE <<>>

\* params of get_client_link for inbound c.
BuildParams(c) ==
    <<Param("type", Get(c.network, "tcp")),
      Param("security", Get(c.security, "none"))>>
    \o TransportParams(c) \o SecurityParams(c)

\* "&".join(params)
ParamsStr(params) ==
    JoinWith([i \in 1..Len(params) |-> params[i].k \o "=" \o params[i].v], "&")

\* vless_link
VlessLink(client_uuid, c) ==
    "vless://" \o client_uuid \o "@" \o server_address \o ":"
    \o ToString(Get(c.port, 443)) \o "?" \o ParamsStr(BuildParams(c))
    \o "#" \o Get(c.remark, "vless")

\* The inbounds the panel answers with in the facade's runs: one with
\* websocket over TLS, and one whose streamSettings cannot be decoded.
InboundAnswers ==
    { [EmptyInbound EXCEPT !.port = Some(8443), !.remark = Some("office"),
                           !.network = Some("ws"), !.security = Some("tls"),
                           !.ws_path = Some("/ws"), !.tls_fp = Some("chrome")],
      [EmptyInbound EXCEPT !.decodable = FALSE] }

\* ------------------------------------------------------- subscription URL
\* A URL is the sequence of the pieces it is written with ("" is <<>>).
\* config.MARZBAN_PANEL_URL (its default), which is the client's base_url.
MARZBAN_PANEL_URL == <<"http", "://", "165.245.183.72:1200">>

\* The pieces an answer's subscription_url is written with.
UrlPieces == {"http", "https", "://", "sub.example.com", "/sub/token"}

\* url.startswith("http"), read off the first piece.
StartsWithHttp(url) == url # <<>> /\ url[1] \in {"http", "https"}

\* "Build full subscription URL"
NormalizeSubscriptionUrl(url) ==
    IF url # <<>> /\ ~StartsWithHttp(url) THEN MARZBAN_PANEL_URL \o url ELSE url

\* user_info of an answer of POST /user: subscription_url and links, each
\* present or absent.
NoUserInfo == [subscription_url |-> None, links |-> None]

\* The answer of POST /user in the facade's runs.
UserAnswers ==
    { [subscription_url |-> Some(<<"/sub/token">>), links |-> Some(<<"ss://link1">>)] }

\* ------------------------------------------------------------ facade state
NoPayload == [op |-> "none"]
\* No client method has returned yet.
NoResult == [success |-> FALSE, error |-> "<no result>"]
EmptyLocals ==
    [plan |-> "none", inbound |-> 0, uuid |-> "none", created |-> FALSE,
     key_count |-> 0, i |-> 0, created_users |-> <<>>, errors |-> <<>>,
     inbounds |-> EmptyCatalog, payload |-> NoPayload, raised |-> {},
     n_create_user |-> 0, inbounds_answer |-> "none", now |-> 0,
     base_username |-> "none", submitted |-> <<>>,
     data_half_gb |-> 0, expiry_days |-> 0, limit_ip |-> 0,
     result |-> NoResult,
     inbound_config |-> EmptyInbound, params |-> <<>>, link |-> "none",
     user_info |-> NoUserInfo]

\* The client name of the model's text messages and quick commands;
\* sanitize_username leaves such a name (lower-case letters, 3 to 32 of
\* them) as it is.
ClientName == "name"

\* int(time.time()) % 100000
Stamp(now) == (now \div MillisPerSecond) % 100000

\* base_username = f"{client_name}_{int(time.time()) % 100000}"
BaseUsername(client_name, now) == client_name \o "_" \o ToString(Stamp(now))

\* Faulty variant of Username: the index is never appended.
MutUsernameNoSuffix(l) == l.base_username

\* current_username: base_username, with the index when the plan has several keys.
Username(l) ==
    IF l.key_count > 1 THEN l.base_username \o "_" \o ToString(l.i)
    ELSE l.base_username

\* A handler ends after sending the final message r without awaiting a panel.
Finish(l, r) ==
    /\ fl' = l
    /\ report' = Append(report, r)
    /\ fpc' = "done"
    /\ Request_Clear(Bot)

\* ------------------------------------------------------ create_vless_key
\* create_client called with the arguments in l when time.time() reads now,
\* up to its first await: it draws the identifier, computes the expiry,
\* builds client_settings and data, and enters _request.
CreateClient_At(l, now) ==
    \E u \in Uuids :
       /\ fl' = [l EXCEPT
                    !.uuid = u,
                    !.now = now,
                    !.payload = [op |-> "addClient", id |-> l.inbound, uuid |-> u,
                                 limitIp |-> l.limit_ip,
                                 totalGB |-> TotalBytes(l.data_half_gb),
                                 expiryTime |-> ExpiryTime(now, l.expiry_days)]]
       /\ fpc' = "vless_create"
       /\ Request_Begin(Bot, "vless")
       /\ UNCHANGED report

\* create_client called by the handler: time.time() gives some reading.
CreateClient_Call(l) == \E now \in ClockReadings : CreateClient_At(l, now)

\* create_vless_key with user_data d, up to its first await of the panel:
\* the two validations, the clearing of the pending selection, and
\* create_client up to the addClient request.
create_vless_key(d) ==
    IF d.info = "none" \/ d.plan = "none"
    THEN /\ ud' = d
         /\ Finish(EmptyLocals, [kind |-> "rejected", why |-> "no_plan",
                                 selector |-> "none"])
    ELSE IF d.plan \notin DOMAIN inbound_ids
    THEN /\ ud' = d
         /\ Finish(EmptyLocals, [kind |-> "rejected", why |-> "bad_config",
                                 selector |-> d.plan])
    ELSE /\ ud' = NoPending
         /\ CreateClient_Call([EmptyLocals EXCEPT
                                 !.plan = d.info,
                                 !.inbound = inbound_ids[d.plan],
                                 !.data_half_gb = PlanInfo(d.info).data_half_gb,
                                 !.expiry_days = PlanInfo(d.info).expiry_days,
                                 !.limit_ip = PlanInfo(d.info).devices])

\* Faulty variant of CreateClientResult: the backend's message is dropped.
MutCreateClientResultDropsMsg(l, r) ==
    IF r = "ok"
    THEN [success |-> TRUE, uuid |-> l.uuid]
    ELSE [success |-> FALSE, error |-> "Unknown error"]

\* What create_client returns when its request was answered with kind r:
\* the success dict with client_uuid, or the failure dict with
\* result.get("msg", "Unknown error").
CreateClientResult(l, r) ==
    IF r = "ok"
    THEN [success |-> TRUE, uuid |-> l.uuid]
    ELSE [success |-> FALSE,
          error |-> IF AnswerMsg(r) = NoMsg THEN "Unknown error" ELSE AnswerMsg(r)]

\* create_client's request has ended: create_client returns a success or a
\* failure dict, or the exception of _request passes through it to the
\* handler's except block.  On success the handler calls get_client_link.
Bot_VlessCreateDone ==
    /\ fpc = "vless_create"
    /\ rpc[Bot] \in {"ret", "raised"}
    /\ IF rpc[Bot] = "raised"
       THEN Finish([fl EXCEPT !.raised = @ \cup {"create_client"}],
                   [kind |-> "failure", why |-> rres[Bot]])
       ELSE LET result == CreateClientResult(fl, rres[Bot])
            IN  IF result.success
                THEN /\ fl' = [fl EXCEPT !.created = TRUE,
                                         !.result = result,
                                         !.payload = [op |-> "get", id |-> fl.inbound]]
                     /\ fpc' = "vless_link"
                     /\ Request_Begin(Bot, "vless")
                     /\ UNCHANGED report
                ELSE Finish([fl EXCEPT !.result = result],
                            [kind |-> "failure", why |-> rres[Bot],
                             error |-> result.error])
    /\ UNCHANGED <<ud, updates, inbound_ids, calls, client>>

\* The handler's message after create_client succeeded and get_client_link
\* returned link ("none": no link).
VlessSuccessReport(l, link) ==
    [kind |-> "success", uuid |-> l.result.uuid, link |-> link,
     data_text |-> DataText(l.data_half_gb)]

\* get_client_link with locals l after the answer c of GET /get/{id}: it
\* decodes the streamSettings and builds the link.
GetClientLink_Locals(l, c) ==
    [l EXCEPT !.inbound_config = c,
              !.params = BuildParams(c),
              !.link = VlessLink(l.result.uuid, c)]

\* The handler after get_client_link got the inbound c: the summary with
\* the link, or the except block when json.loads raised.
LinkBuilt(l, c) ==
    IF c.decodable
    THEN Finish(GetClientLink_Locals(l, c),
                VlessSuccessReport(l, GetClientLink_Locals(l, c).link))
    ELSE Finish([l EXCEPT !.raised = @ \cup {"get_client_link"}],
                [kind |-> "failure", why |-> "exc_decode"])

\* Faulty variant of Bot_VlessLinkDone: an exception of get_client_link is
\* not caught by the handler, which ends without a final message.
MutVlessLinkDoneUncaught ==
    /\ fpc = "vless_link"
    /\ rpc[Bot] \in {"ret", "raised"}
    /\ IF rpc[Bot] = "raised"
       THEN /\ fl' = [fl EXCEPT !.raised = @ \cup {"get_client_link"}]
            /\ fpc' = "done"
            /\ Request_Clear(Bot)
            /\ UNCHANGED report
       ELSE IF rres[Bot] = "ok"
       THEN \E c \in InboundAnswers : LinkBuilt(fl, c)
       ELSE Finish(fl, VlessSuccessReport(fl, "none"))
    /\ UNCHANGED <<ud, updates, inbound_ids, calls, client>>

\* get_client_link's request has ended.  A rejected answer gives no link; an
\* accepted one gives the URI unless its streamSettings cannot be decoded
\* (json.loads raises); an exception reaches the handler's except block.
Bot_VlessLinkDone ==
    /\ fpc = "vless_link"
    /\ rpc[Bot] \in {"ret", "raised"}
    /\ IF rpc[Bot] = "raised"
       THEN Finish([fl EXCEPT !.raised = @ \cup {"get_client_link"}],
                   [kind |-> "failure", why |-> rres[Bot]])
       ELSE IF rres[Bot] = "ok"
       THEN \E c \in InboundAnswers : LinkBuilt(fl, c)
       ELSE Finish(fl, VlessSuccessReport(fl, "none"))
    /\ UNCHANGED <<ud, updates, inbound_ids, calls, client>>

\* ---------------------------------------------------- create_outline_key
\* The handler's message after the loop: the summary with data_text when a
\* key was created, else the all-failed message.
OutlineReport(l) ==
    IF l.created_users # <<>>
    THEN [kind |-> "success", created_users |-> l.created_users,
          errors |-> l.errors, data_text |-> DataText(l.data_half_gb)]
    ELSE [kind |-> "failure", created_users |-> l.created_users,
          errors |-> l.errors]

\* create_user called for key l.i when time.time() reads now, up to its
\* first await: it computes the expiry and the data cap and enters
\* get_inbounds.
CreateUser_At(l, now) ==
    /\ fl' = [l EXCEPT !.n_create_user = @ + 1,
                       !.now = now,
                       !.submitted = Append(@, Username(l)),
                       !.payload = [op |-> "inbounds"]]
    /\ fpc' = "outline_inbounds"
    /\ Request_Begin(Bot, "marzban")
    /\ UNCHANGED report

\* Faulty variant of Outline_Step: the loop stops at the first failed key.
MutOutlineStepStopsOnError(l) ==
    IF l.i <= l.key_count /\ l.errors = <<>>
    THEN \E now \in ClockReadings : CreateUser_At(l, now)
    ELSE Finish(l, OutlineReport(l))

\* The head of `for i in range(1, key_count + 1)` with locals l: either
\* create_user is called for key l.i (up to its first await, get_inbounds),
\* or the loop is over and the result message is sent.
Outline_Step(l) ==
    IF l.i <= l.key_count
    THEN \E now \in ClockReadings : CreateUser_At(l, now)
    ELSE Finish(l, OutlineReport(l))

\* Faulty variant of create_outline_key: the pending selection is not
\* cleared.
MutCreateOutlineKeyKeepsPending(d) ==
    IF d.info = "none"
    THEN /\ ud' = d
         /\ Finish(EmptyLocals, [kind |-> "rejected", why |-> "no_plan",
                                 selector |-> "none"])
    ELSE /\ ud' = d
         /\ \E now \in ClockReadings :
               Outline_Step([EmptyLocals EXCEPT
                               !.plan = d.info,
                               !.data_half_gb = PlanInfo(d.info).data_half_gb,
                               !.expiry_days = PlanInfo(d.info).expiry_days,
                               !.key_count = KeyCount(d.info),
                               !.base_username = BaseUsername(ClientName, now),
                               !.i = 1])

\* create_outline_key with user_data d, up to its first await of the panel.
create_outline_key(d) ==
    IF d.info = "none"
    THEN /\ ud' = d
         /\ Finish(EmptyLocals, [kind |-> "rejected", why |-> "no_plan",
                                 selector |-> "none"])
    ELSE /\ ud' = NoPending
         /\ \E now \in ClockReadings :
               Outline_Step([EmptyLocals EXCEPT
                               !.plan = d.info,
                               !.data_half_gb = PlanInfo(d.info).data_half_gb,
                               !.expiry_days = PlanInfo(d.info).expiry_days,
                               !.key_count = KeyCount(d.info),
                               !.base_username = BaseUsername(ClientName, now),
                               !.i = 1])

\* Key l.i failed with error e; raised tells that create_user raised.
\* create_user's own locals (the catalog it fetched) end with the call.
KeyFailed(l, e, raised) ==
    [l EXCEPT !.errors = Append(@, [i |-> l.i, error |-> e]),
              !.raised = IF raised THEN @ \cup {"create_user"} ELSE @,
              !.inbounds = EmptyCatalog,
              !.inbounds_answer = "none",
              !.i = @ + 1]

\* The success dict of create_user for key l.i, answered with l.user_info,
\* as the loop keeps it (i: the key it is the result of).
CreatedUser(l) ==
    [i |-> l.i,
     username |-> Username(l),
     subscription_url |->
         NormalizeSubscriptionUrl(Get(l.user_info.subscription_url, <<>>)),
     links |-> Get(l.user_info.links, <<>>)]

\* Faulty variant of KeyCreated: the new result is put first in the list.
MutKeyCreatedPrepends(l) ==
    [l EXCEPT !.created_users = <<CreatedUser(l)>> \o @,
              !.inbounds = EmptyCatalog,
              !.inbounds_answer = "none",
              !.i = @ + 1]

\* Key l.i was created.
KeyCreated(l) ==
    [l EXCEPT !.created_users = Append(@, CreatedUser(l)),
              !.inbounds = EmptyCatalog,
              !.inbounds_answer = "none",
              !.i = @ + 1]

\* Faulty variant of Bot_InboundsDone: the proxies are not built from the
\* answer of this call but from a catalog read once, before any had an
\* inbound.
MutInboundsDoneUsesOldCatalog ==
    /\ fpc = "outline_inbounds"
    /\ rpc[Bot] \in {"ret", "raised"}
    /\ IF rpc[Bot] = "raised"
       THEN Outline_Step(KeyFailed(fl, rres[Bot], TRUE))
       ELSE \E cat \in (IF rres[Bot] = "ok" THEN Catalogs ELSE {EmptyCatalog}) :
               /\ fl' = [fl EXCEPT
                            !.inbounds = cat,
                            !.inbounds_answer = rres[Bot],
                            !.payload = [op |-> "user",
                                         username |-> Username(fl),
                                         proxies |-> BuildProxyConfig(EmptyCatalog).proxies,
                                         inbounds |-> BuildProxyConfig(EmptyCatalog).inbounds,
                                         data_limit |-> DataLimitBytes(fl.data_half_gb),
                                         expire |-> ExpiryTimestamp(fl.now, fl.expiry_days),
                                         data_limit_reset_strategy |-> "no_reset",
                                         status |-> "active"]]
               /\ fpc' = "outline_user"
               /\ Request_Begin(Bot, "marzban")
               /\ UNCHANGED report
    /\ UNCHANGED <<ud, updates, inbound_ids, calls, client>>

\* get_inbounds' request has ended inside create_user.  An exception passes
\* through create_user to the loop's except block; otherwise create_user
\* builds the proxies from the answer ({} when the request was rejected) and
\* submits the user.
Bot_InboundsDone ==
    /\ fpc = "outline_inbounds"
    /\ rpc[Bot] \in {"ret", "raised"}
    /\ IF rpc[Bot] = "raised"
       THEN Outline_Step(KeyFailed(fl, rres[Bot], TRUE))
       ELSE \E cat \in (IF rres[Bot] = "ok" THEN Catalogs ELSE {EmptyCatalog}) :
               /\ fl' = [fl EXCEPT
                            !.inbounds = cat,
                            !.inbounds_answer = rres[Bot],
                            !.payload = [op |-> "user",
                                         username |-> Username(fl),
                                         proxies |-> BuildProxyConfig(cat).proxies,
                                         inbounds |-> BuildProxyConfig(cat).inbounds,
                                         data_limit |-> DataLimitBytes(fl.data_half_gb),
                                         expire |-> ExpiryTimestamp(fl.now, fl.expiry_days),
                                         data_limit_reset_strategy |-> "no_reset",
                                         status |-> "active"]]
               /\ fpc' = "outline_user"
               /\ Request_Begin(Bot, "marzban")
               /\ UNCHANGED report
    /\ UNCHANGED <<ud, updates, inbound_ids, calls, client>>

\* The POST /user request has ended: create_user returns a success or a
\* failure dict, or raises; the loop records it and goes on.
Bot_UserDone ==
    /\ fpc = "outline_user"
    /\ rpc[Bot] \in {"ret", "raised"}
    /\ IF rpc[Bot] = "raised"
       THEN Outline_Step(KeyFailed(fl, rres[Bot], TRUE))
       ELSE IF rres[Bot] = "ok"
       THEN \E info \in UserAnswers :
               Outline_Step(KeyCreated([fl EXCEPT !.user_info = info]))
       ELSE Outline_Step(KeyFailed(fl, rres[Bot], FALSE))
    /\ UNCHANGED <<ud, updates, inbound_ids, calls, client>>

\* The handler returns (after "Choose another action:").
Bot_HandlerEnd ==
    /\ fpc = "done"
    /\ fpc' = "idle"
    /\ fl' = EmptyLocals
    /\ report' = <<>>
    /\ UNCHANGED <<execVars, ud, updates, inbound_ids, calls, client>>

\* ------------------------------------------------------------- the updates
\* What a handler does when it starts no provisioning.
NoProvisioning == UNCHANGED <<execVars, fpc, fl, report>>

\* A handler that only answers: it sends message r and ends.
Reply(r) == Finish(EmptyLocals, r)

\* "Invalid plan": the message for a plan key that is in no plan table.
InvalidPlan(selector) ==
    Reply([kind |-> "rejected", why |-> "invalid_plan", selector |-> selector])

\* callback_data of the inline buttons: the plan keys, a menu button, and
\* data with a plan prefix that names no plan.
ButtonData ==
    VlessPlanKeys \cup OutlinePlanKeys \cup {"server_vless", "vless_bogus", "outline_bogus"}

button_callback(u, data) ==
    /\ fpc = "idle"
    /\ updates < MaxUpdates
    /\ updates' = updates + 1
    /\ IF ~is_admin(u) THEN Reply([kind |-> "denied"]) /\ UNCHANGED ud
       ELSE IF data = "server_vless"
       THEN Reply([kind |-> "menu"]) /\ UNCHANGED ud
       ELSE IF data \in VlessPlanKeys
       THEN /\ ud' = [action |-> "vless_create", plan |-> data, info |-> data]
            /\ Reply([kind |-> "prompt"])
       ELSE IF data \in OutlinePlanKeys
       THEN /\ ud' = [action |-> "outline_create", plan |-> data, info |-> data]
            /\ Reply([kind |-> "prompt"])
       ELSE InvalidPlan(data) /\ UNCHANGED ud
    /\ UNCHANGED <<inbound_ids, calls, client>>

\* Text messages: the support button's text, or any other text (a name).
Texts == {"support", "name"}

\* Faulty variant of handle_text: the pending creation is processed without
\* the admin test.
MutHandleTextSkipsAdminTest(u, text) ==
    /\ fpc = "idle"
    /\ updates < MaxUpdates
    /\ updates' = updates + 1
    /\ IF text = "support"
       THEN Reply([kind |-> "support"]) /\ UNCHANGED ud
       ELSE IF ud.action = "vless_create" THEN create_vless_key(ud)
       ELSE IF ud.action = "outline_create" THEN create_outline_key(ud)
       ELSE NoProvisioning /\ UNCHANGED ud
    /\ UNCHANGED <<inbound_ids, calls, client>>

handle_text(u, text) ==
    /\ fpc = "idle"
    /\ updates < MaxUpdates
    /\ updates' = updates + 1
    /\ IF text = "support"
       THEN Reply([kind |-> "support"]) /\ UNCHANGED ud
       ELSE IF ~is_admin(u)
       THEN NoProvisioning /\ UNCHANGED ud
       ELSE IF ud.action = "vless_create" THEN create_vless_key(ud)
       ELSE IF ud.action = "outline_create" THEN create_outline_key(ud)
       ELSE NoProvisioning /\ UNCHANGED ud
    /\ UNCHANGED <<inbound_ids, calls, client>>

\* context.args[1].lower() of a quick command; "" stands for fewer than two
\* arguments.
QuickArgs == {"basic", "silver", "golden", "trial", "bogus", ""}

quick_create_vless(u, arg) ==
    /\ fpc = "idle"
    /\ updates < MaxUpdates
    /\ updates' = updates + 1
    /\ IF ~is_admin(u) THEN Reply([kind |-> "denied"]) /\ UNCHANGED ud
       ELSE IF arg = "" THEN Reply([kind |-> "usage"]) /\ UNCHANGED ud
       ELSE IF ("vless_" \o arg) \notin VlessPlanKeys
       THEN InvalidPlan("vless_" \o arg) /\ UNCHANGED ud
       ELSE create_vless_key([ud EXCEPT !.plan = "vless_" \o arg,
                                        !.info = "vless_" \o arg])
    /\ UNCHANGED <<inbound_ids, calls, client>>

quick_create_outline(u, arg) ==
    /\ fpc = "idle"
    /\ updates < MaxUpdates
    /\ updates' = updates + 1
    /\ IF ~is_admin(u) THEN Reply([kind |-> "denied"]) /\ UNCHANGED ud
       ELSE IF arg = "" THEN Reply([kind |-> "usage"]) /\ UNCHANGED ud
       ELSE IF ("outline_" \o arg) \notin OutlinePlanKeys
       THEN InvalidPlan("outline_" \o arg) /\ UNCHANGED ud
       ELSE create_outline_key([ud EXCEPT !.info = "outline_" \o arg])
    /\ UNCHANGED <<inbound_ids, calls, client>>

\* --------------------------------------------------------- specifications
InitClients ==
    /\ session = [b \in Backends |-> NoSession]
    /\ rpc = [t \in Tasks |-> "idle"]
    /\ tb = [t \in Tasks |-> "vless"]
    /\ carried = [t \in Tasks |-> NoSession]
    /\ ev = [t \in Tasks |-> <<>>]
    /\ rres = [t \in Tasks |-> "none"]
    /\ calls = 0

InitFacade ==
    /\ fpc = "idle"
    /\ ud = NoPending
    /\ fl = EmptyLocals
    /\ report = <<>>
    /\ updates = 0

\* The bot: updates are handled one at a time (Application's default), each
\* handler awaiting the panels through the two clients.
Init ==
    /\ InitClients
    /\ InitFacade
    /\ client = "vless"
    /\ inbound_ids \in InboundIdConfigs

\* ------------------------------------------- create_user on every catalog
\* The lists of inbounds a protocol may have in an answer.
TagLists ==
    { <<>>, <<TagDict("t1")>>, <<TagStr("t2"), TagDict("t1")>>, <<TaglessDict>> }

CatalogEntries == {CatalogEntry(n, tags) : n \in ProtocolNames, tags \in TagLists}

\* The answers of GET /inbounds: the JSON objects of at most MaxCatalog
\* members (member names are distinct), and a value that is no object.
CatalogInputs ==
    { DictCatalog(es) :
        es \in { x \in UNION {[1..k -> CatalogEntries] : k \in 0..MaxCatalog} :
                   \A i, j \in 1..Len(x) : i # j => x[i].name # x[j].name } }
    \cup {NotADict}

\* create_user between the answer of get_inbounds and the POST: it builds
\* proxies and inbound_config into user_data.
CreateUser_Build ==
    /\ fpc = "outline_inbounds"
    /\ fl.payload.op = "inbounds"
    /\ fl' = [fl EXCEPT !.payload = [op |-> "user",
                                     username |-> Username(fl),
                                     proxies |-> BuildProxyConfig(fl.inbounds).proxies,
                                     inbounds |-> BuildProxyConfig(fl.inbounds).inbounds,
                                     data_limit |-> DataLimitBytes(fl.data_half_gb),
                                         expire |-> ExpiryTimestamp(fl.now, fl.expiry_days),
                                         data_limit_reset_strategy |-> "no_reset",
                                         status |-> "active"]]
    /\ fpc' = "outline_user"
    /\ UNCHANGED <<execVars, ud, report, updates, inbound_ids, calls, client>>

InitCatalog ==
    /\ InitClients
    /\ client = "marzban"
    /\ inbound_ids = [vless_basic |-> 1, vless_silver |-> 2, vless_golden |-> 3, vless_trial |-> 4]
    /\ ud = NoPending
    /\ report = <<>>
    /\ updates = 0
    /\ fpc = "outline_inbounds"
    /\ \E cat \in CatalogInputs :
          fl = [EmptyLocals EXCEPT !.plan = "outline_basic", !.key_count = 1, !.i = 1,
                                   !.n_create_user = 1, !.inbounds = cat,
                                   !.base_username = "name_1",
                                   !.submitted = <<"name_1">>,
                                   !.inbounds_answer = "ok",
                                   !.payload = [op |-> "inbounds"]]

NextCatalog == CreateUser_Build

SpecCatalog == InitCatalog /\ [][NextCatalog]_vars

\* The panel answers the handler's pending login or request (or the 30 s
\* timeout of the HTTP client ends the wait with an exception).
PanelAnswers ==
    \/ \E o \in LoginOutcomes : Request_LoginDone(Bot, o) /\ UNCHANGED facadeVars
    \/ \E r \in RespKinds(tb[Bot]) : Request_Answer1(Bot, r) /\ UNCHANGED facadeVars
    \/ \E r \in RespKinds(tb[Bot]) : Request_Answer2(Bot, r) /\ UNCHANGED facadeVars

\* The handler goes on after the call it awaited has ended.
HandlerContinues ==
    \/ Bot_VlessCreateDone
    \/ Bot_VlessLinkDone
    \/ Bot_InboundsDone
    \/ Bot_UserDone
    \/ Bot_HandlerEnd

UpdateArrives ==
    \/ \E u \in Users, d \in ButtonData : button_callback(u, d)
    \/ \E u \in Users, x \in Texts : handle_text(u, x)
    \/ \E u \in Users, a \in QuickArgs : quick_create_vless(u, a)
    \/ \E u \in Users, a \in QuickArgs : quick_create_outline(u, a)

Next == UpdateArrives \/ PanelAnswers \/ HandlerContinues

Spec == Init /\ [][Next]_vars

\* Every awaited HTTP call ends (answer, error or timeout) and the event loop
\* resumes a coroutine whose await has ended.
SpecLive == Spec /\ WF_vars(PanelAnswers) /\ WF_vars(HandlerContinues)

\* ------------------------------------------------- get_client_link's links
\* The members of an inbound that get_client_link reads, each absent or
\* present, empty or not.
NetworkInputs == {None, Some("tcp"), Some("ws"), Some("grpc"), Some("kcp")}
SecurityInputs == {None, Some("none"), Some("tls"), Some("reality")}
WsInputs ==
    { [path |-> None, host |-> None],
      [path |-> Some("/ws"), host |-> Some("cdn.example.com")] }
TlsInputs ==
    { [sni |-> None, fp |-> None, alpn |-> <<>>],
      [sni |-> Some("a.example.com"), fp |-> Some("chrome"), alpn |-> <<"h2", "http/1.1">>],
      [sni |-> Some("a.example.com"), fp |-> Some(""), alpn |-> <<"">>],
      [sni |-> None, fp |-> None, alpn |-> <<"h2">>] }
RealityInputs ==
    { [pbk |-> None, fp |-> None, names |-> <<>>, sids |-> <<>>, spx |-> None],
      [pbk |-> Some("PBK"), fp |-> Some("firefox"), names |-> <<"r.example.com", "s.example.com">>,
       sids |-> <<"ab12", "cd34">>, spx |-> Some("/")],
      [pbk |-> Some("PBK"), fp |-> None, names |-> <<"r.example.com">>,
       sids |-> <<"">>, spx |-> Some("")] }

InboundInputs ==
    { [decodable |-> TRUE, port |-> port, remark |-> remark,
       network |-> network, security |-> security,
       ws_path |-> ws.path, ws_host |-> ws.host, grpc_service |-> grpc,
       tcp_header |-> tcp,
       tls_sni |-> tls.sni, tls_fp |-> tls.fp, tls_alpn |-> tls.alpn,
       r_pbk |-> r.pbk, r_fp |-> r.fp, r_names |-> r.names, r_sids |-> r.sids,
       r_spx |-> r.spx] :
        port \in {None, Some(8443)}, remark \in {None, Some("office")},
        network \in NetworkInputs, security \in SecurityInputs,
        ws \in WsInputs, grpc \in {None, Some("svc")}, tcp \in {None, Some("http")},
        tls \in TlsInputs, r \in RealityInputs }
    \cup {[EmptyInbound EXCEPT !.decodable = FALSE]}

\* get_client_link between the answer of its request and its return, and
\* the handler's message with the link.
GetClientLink_Build ==
    /\ fpc = "vless_link"
    /\ LinkBuilt(fl, fl.inbound_config)
    /\ UNCHANGED <<ud, updates, inbound_ids, calls, client>>

InitLink ==
    /\ InitClients
    /\ client = "vless"
    /\ inbound_ids = [vless_basic |-> 1, vless_silver |-> 2, vless_golden |-> 3, vless_trial |-> 4]
    /\ ud = NoPending
    /\ report = <<>>
    /\ updates = 0
    /\ fpc = "vless_link"
    /\ \E u \in Uuids, c \in InboundInputs :
          fl = [EmptyLocals EXCEPT !.plan = "vless_basic", !.inbound = 1, !.uuid = u,
                                   !.created = TRUE,
                                   !.result = [success |-> TRUE, uuid |-> u],
                                   !.payload = [op |-> "get", id |-> 1],
                                   !.inbound_config = c]

NextLink == GetClientLink_Build

SpecLink == InitLink /\ [][NextLink]_vars

\* ------------------------------------------------- create_user's results
\* The subscription URLs of an answer: every sequence of at most MaxUrlLen
\* pieces.
UrlInputs == UNION {[1..k -> UrlPieces] : k \in 0..MaxUrlLen}

UserInfoInputs ==
    { [subscription_url |-> u, links |-> ls] :
        u \in {None} \cup {Some(x) : x \in UrlInputs},
        ls \in {None, Some(<<>>), Some(<<"ss://link1", "vmess://link2">>)} }

\* create_user after POST /user was accepted: it returns the success dict,
\* which the loop records.
CreateUser_Return ==
    /\ fpc = "outline_user"
    /\ Outline_Step(KeyCreated(fl))
    /\ UNCHANGED <<ud, updates, inbound_ids, calls, client>>

InitUser ==
    /\ InitClients
    /\ client = "marzban"
    /\ inbound_ids = [vless_basic |-> 1, vless_silver |-> 2, vless_golden |-> 3, vless_trial |-> 4]
    /\ ud = NoPending
    /\ report = <<>>
    /\ updates = 0
    /\ fpc = "outline_user"
    /\ \E info \in UserInfoInputs :
          fl = [EmptyLocals EXCEPT !.plan = "outline_basic", !.key_count = 1, !.i = 1,
                                   !.n_create_user = 1,
                                   !.base_username = "name_1",
                                   !.submitted = <<"name_1">>,
                                   !.payload = [op |-> "user", username |-> "name_1"],
                                   !.user_info = info]

NextUser == CreateUser_Return

SpecUser == InitUser /\ [][NextUser]_vars

\* ------------------------------------------- the clients' creation calls
\* create_client and create_user on arguments of their whole range, called
\* as the handlers call them: after the progress message, with the summary
\* sent at the end.
DayInputs == {1, 30}
DeviceInputs == {1, 2, 3}
\* Readings of time.time(): whole seconds and seconds with a fraction.
NowInputs == {0, 1, 999, 17000, 17500, 17999}

\* create_vless_key after its progress message: it calls create_client.
Vless_AfterProgressMsg ==
    /\ fpc = "vless_call"
    /\ \E now \in NowInputs : CreateClient_At(fl, now)
    /\ UNCHANGED <<ud, updates, inbound_ids, calls, client>>

\* create_outline_key after its progress message: the loop starts.
Outline_AfterProgressMsg ==
    /\ fpc = "outline_call"
    /\ \E now \in NowInputs : CreateUser_At(fl, now)
    /\ UNCHANGED <<ud, updates, inbound_ids, calls, client>>

InitCalls ==
    /\ InitClients
    /\ client = "vless"
    /\ inbound_ids = [vless_basic |-> 1, vless_silver |-> 2, vless_golden |-> 3, vless_trial |-> 4]
    /\ ud = NoPending
    /\ report = <<>>
    /\ updates = 0
    /\ \E h \in 0..MaxHalfGb, days \in DayInputs :
          \/ /\ fpc = "vless_call"
             /\ \E ip \in DeviceInputs :
                   fl = [EmptyLocals EXCEPT !.plan = "vless_basic", !.inbound = 1,
                                            !.data_half_gb = h, !.expiry_days = days,
                                            !.limit_ip = ip]
          \/ /\ fpc = "outline_call"
             /\ fl = [EmptyLocals EXCEPT !.plan = "outline_basic", !.key_count = 1,
                                         !.i = 1, !.data_half_gb = h,
                                         !.base_username = "name_1",
                                         !.expiry_days = days]

NextCalls ==
    \/ Vless_AfterProgressMsg
    \/ Outline_AfterProgressMsg
    \/ PanelAnswers
    \/ HandlerContinues

SpecCalls == InitCalls /\ [][NextCalls]_vars

\* ------------------------------------------- callers of _request (SpecExec)
\* A coroutine calls client._request; several may do so on one client.
Caller_Request(t) ==
    /\ rpc[t] \in {"idle", "ret", "raised"}
    /\ calls < MaxCalls
    /\ calls' = calls + 1
    /\ Request_Begin(t, client)
    /\ UNCHANGED <<client, facadeVars>>

InitExec ==
    /\ InitClients
    /\ InitFacade
    /\ client \in Backends
    /\ inbound_ids = [vless_basic |-> 1, vless_silver |-> 2, vless_golden |-> 3, vless_trial |-> 4]

NextExec ==
    \/ \E t \in Callers : Caller_Request(t)
    \/ \E t \in Callers, o \in LoginOutcomes :
          Request_LoginDone(t, o) /\ UNCHANGED facadeVars
    \/ \E t \in Callers : \E r \in RespKinds(tb[t]) :
          Request_Answer1(t, r) /\ UNCHANGED facadeVars
    \/ \E t \in Callers : \E r \in RespKinds(tb[t]) :
          Request_Answer2(t, r) /\ UNCHANGED facadeVars

SpecExec == InitExec /\ [][NextExec]_vars


\* ======================================================================
\* Properties of _request (SpecExec)
\* ======================================================================
\* The events with which a call records an answer carrying the backend's
\* "session is not valid" signal.
SessionInvalidEvents == {"resp_expired", "resp_rej_login_text"}

Sends(t) == {i \in 1..Len(ev[t]) : ev[t][i].e = "send"}
Logins(t) == {i \in 1..Len(ev[t]) : ev[t][i].e = "login"}
InvalidAnswers(t) == {i \in 1..Len(ev[t]) : ev[t][i].e \in SessionInvalidEvents}
\* The events of task t's call after position i that are of kind e.
After(t, i, e) == {j \in (i + 1)..Len(ev[t]) : ev[t][j].e = e}
\* The number of the attempt that the answer at position i answers.
AttemptOf(t, i) == Cardinality({j \in Sends(t) : j < i})
Ended(t) == rpc[t] \in {"ret", "raised"}

\* C1: a session-invalid answer to the first attempt of a _request call is
\* followed by exactly one login and, when that login succeeds, by exactly
\* one retried request; a session-invalid answer to the retried request ends
\* the call, which returns a failure result; no call sends more than two
\* requests.
C1_BoundedRetry ==
    \A t \in Callers :
        /\ Cardinality(Sends(t)) <= 2
        /\ \A i \in InvalidAnswers(t) :
              IF AttemptOf(t, i) = 1
              THEN /\ Cardinality(After(t, i, "login")) = 1
                   /\ Cardinality(After(t, i, "send")) =
                         Cardinality(After(t, i, "login_ok"))
                   /\ Cardinality(After(t, i, "send")) <= 1
                   /\ (rpc[t] = "ret" => Cardinality(After(t, i, "send")) = 1)
              ELSE /\ i = Len(ev[t])
                   /\ rpc[t] = "ret"
                   /\ rres[t] \in {"expired", "rej_login_text"}

\* A call whose retried request was answered session-invalid too has returned.
C1_Witness ==
    \E t \in Callers :
        /\ rpc[t] = "ret"
        /\ Cardinality(Sends(t)) = 2
        /\ Cardinality(InvalidAnswers(t)) = 2
        /\ Len(ev[t]) \in InvalidAnswers(t)

\* C4: logins on one client instance are mutually exclusive: at no time do
\* two callers have a login in flight (stated as the claim states it).
C4_SingleFlightLogin ==
    Cardinality({t \in Callers : rpc[t] \in {"login1", "login2"}}) <= 1

\* C6: a failed login is the last thing its _request call does: no login and
\* no request follows it, and the call ends by raising the authentication
\* failure to its caller.
C6_LoginFailureIsFatal ==
    \A t \in Callers :
        \A i \in 1..Len(ev[t]) :
            ev[t][i].e = "login_fail" =>
                /\ i = Len(ev[t])
                /\ rpc[t] = "raised"
                /\ rres[t] = "exc_auth"

\* The re-authentication after a session-invalid answer was rejected.
C6_Witness ==
    \E t \in Callers :
        /\ rpc[t] = "raised"
        /\ Cardinality(InvalidAnswers(t)) = 1
        /\ Len(ev[t]) > 0
        /\ ev[t][Len(ev[t])].e = "login_fail"

\* C7: when a _request call has ended and its last answer was a session-
\* invalid rejection, the client does not hold the session value that was
\* rejected (stated as the claim states it).
C7_RejectedSessionDiscarded ==
    \A t \in Callers :
        (/\ Ended(t)
         /\ Len(ev[t]) \in InvalidAnswers(t)
         /\ ev[t][Len(ev[t])].s # NoSession)
        => session[tb[t]] # ev[t][Len(ev[t])].s

\* C8: after a session-invalid answer to the first attempt the call discards
\* the session, then logs in, and a retried request follows only a successful
\* login, carries the value that login produced and not the rejected value
\* (stated as the claim states it).
C8_RetryCarriesFreshSession ==
    \A t \in Callers :
        \A i \in InvalidAnswers(t) :
            AttemptOf(t, i) = 1 =>
                /\ ev[t][i + 1].e = "discard"
                /\ ev[t][i + 2].e = "login"
                /\ \A j \in After(t, i, "send") :
                      /\ ev[t][j - 1].e = "login_ok"
                      /\ ev[t][j - 1].s = ev[t][j].s
                      /\ ev[t][j].s # ev[t][i].s

\* ======================================================================
\* Properties of the client methods and of the facade (Spec, SpecLive)
\* ======================================================================
\* C2: no call of create_client or create_user ends by raising to the
\* handler (stated as the claim states it).
C2_ClientNeverRaises ==
    /\ "create_client" \notin fl.raised
    /\ "create_user" \notin fl.raised

\* A handler awaits a panel.
Provisioning == fpc \notin {"idle", "done"}

\* C3: a handler that has started a provisioning sends no final outcome
\* message while it awaits a panel, eventually sends its final outcome
\* message, and sends exactly one.
C3_EveryRequestAnswered ==
    /\ [](Provisioning => report = <<>>)
    /\ [](fpc = "done" => Len(report) = 1)
    /\ (Provisioning ~> (fpc = "done" /\ Len(report) = 1))

\* A provisioning in which a client method raised has been answered.
C3_Witness ==
    /\ fpc = "done"
    /\ Len(report) = 1
    /\ report[1].kind = "failure"
    /\ fl.raised # {}

\* C5: when the loop of create_outline_key has ended for a plan of N keys,
\* create_user was called N times, and the recorded successes and failures
\* are N together: the keys 1..N, each once, a failure under the index of
\* the key that failed.
C5_BatchRunsEveryKey ==
    (fpc = "done" /\ fl.key_count > 0) =>
        LET ok == {fl.created_users[k].i : k \in 1..Len(fl.created_users)}
            bad == {fl.errors[k].i : k \in 1..Len(fl.errors)}
        IN  /\ fl.n_create_user = fl.key_count
            /\ Len(fl.created_users) + Len(fl.errors) = fl.key_count
            /\ ok \cap bad = {}
            /\ ok \cup bad = 1..fl.key_count
            /\ report[1].created_users = fl.created_users
            /\ report[1].errors = fl.errors

\* Three keys, the second failed: two successes and the failure "Key 2".
C5_Witness ==
    /\ fpc = "done"
    /\ fl.key_count = 3
    /\ Len(fl.created_users) = 2
    /\ Len(fl.errors) = 1
    /\ fl.errors[1].i = 2
    /\ fl.n_create_user = 3

\* C9: once create_client has returned success, the handler's final message
\* reports the credential as created, with its identifier (stated as the
\* claim states it).
C9_LinkFailureKeepsSuccess ==
    (fpc = "done" /\ fl.created) =>
        /\ report[1].kind = "success"
        /\ report[1].uuid = fl.uuid

\* ======================================================================
\* Properties of create_user's proxies (SpecCatalog)
\* ======================================================================
\* The protocol names that spell known protocol p.
SpellingsOf(p) ==
    CASE p = "vmess" -> {"vmess", "VMess"}
      [] p = "shadowsocks" -> {"shadowsocks", "Shadowsocks"}
      [] OTHER -> {p}

\* The known protocols present in catalog cat.
Present(cat) ==
    {p \in KnownProtocols :
        \E k \in 1..Len(cat.entries) : cat.entries[k].name \in SpellingsOf(p)}

\* The catalog's member for known protocol p (the last one, when it is
\* spelled in two ways).
MemberOf(cat, p) ==
    LET ks == {k \in 1..Len(cat.entries) : cat.entries[k].name \in SpellingsOf(p)}
    IN  cat.entries[CHOOSE k \in ks : \A m \in ks : m <= k]

\* C10: for a catalog with at least one known protocol, the submitted user's
\* proxies have exactly the known protocols of the catalog as keys, and so
\* has inbounds, where each key has the tags of that protocol's inbounds in
\* the catalog, in order.
C10_ProxiesFollowCatalog ==
    (fl.payload.op = "user" /\ fl.inbounds.isDict /\ Present(fl.inbounds) # {}) =>
        /\ DOMAIN fl.payload.proxies = Present(fl.inbounds)
        /\ DOMAIN fl.payload.inbounds = Present(fl.inbounds)
        /\ \A p \in Present(fl.inbounds) :
              LET tags == MemberOf(fl.inbounds, p).tags
                  out == fl.payload.inbounds[p]
              IN  /\ Len(out) = Len(tags)
                  /\ \A k \in 1..Len(tags) :
                        tags[k].tag # "none" => out[k] = tags[k].tag

\* The catalog {"vmess": [...]} gave a user with only a vmess proxy.
C10_Witness ==
    /\ fl.payload.op = "user"
    /\ fl.inbounds.isDict
    /\ Len(fl.inbounds.entries) = 1
    /\ fl.inbounds.entries[1].name = "vmess"
    /\ fl.inbounds.entries[1].tags # <<>>
    /\ DOMAIN fl.payload.proxies = {"vmess"}
    /\ DOMAIN fl.payload.inbounds = {"vmess"}


\* ---------------------------------------------------------------- C11
\* The catalog has none of the known protocols.
NoKnownProtocol(cat) == ~cat.isDict \/ Present(cat) = {}

\* C11: when get_inbounds has returned inside create_user, create_user goes
\* on to submit the user; a catalog request that was not answered with
\* success counts as the empty catalog; and when the catalog has none of the
\* known protocols (it is empty, has only other names, or is no mapping) the
\* submitted user has the proxies {shadowsocks: {}} and an empty inbounds map.
C11_FallbackIsShadowsocksOnly ==
    [][(fpc = "outline_inbounds" /\ rpc[Bot] = "ret" /\ fl' # fl) =>
         /\ fpc' = "outline_user"
         /\ rpc'[Bot] # "idle"
         /\ fl'.payload.op = "user"
         /\ (rres[Bot] # "ok" => fl'.inbounds = EmptyCatalog)
         /\ (NoKnownProtocol(fl'.inbounds) =>
               /\ fl'.payload.proxies = ("shadowsocks" :> "{}")
               /\ DOMAIN fl'.payload.inbounds = {})]_vars

\* The catalog request was rejected and the user is being submitted with
\* the fallback.
C11_Witness ==
    /\ fpc = "outline_user"
    /\ fl.inbounds_answer = "rej"
    /\ rpc[Bot] = "req1"
    /\ DOMAIN fl.payload.proxies = {"shadowsocks"}


\* ---------------------------------------------------------------- C12
\* The data cap of the creation payload in flight, in MiB.
SentCap ==
    IF fl.payload.op = "addClient" THEN fl.payload.totalGB ELSE fl.payload.data_limit

\* C12: in the creation payload of either backend a cap of 0 is sent as 0
\* and a positive cap of v GB as v * 1024^3 bytes (twice the bytes sent are
\* the cap in half GB times 1024^3), so a positive cap is never sent as 0 nor
\* a zero cap as a positive count; and the summary of a creation with cap 0
\* shows "Unlimited".
C12_CapSentExactly ==
    /\ fl.payload.op \in {"addClient", "user"} =>
          /\ 2 * SentCap = fl.data_half_gb * BytesPerGB
          /\ (SentCap = 0) = (fl.data_half_gb = 0)
    /\ \A k \in 1..Len(report) :
          (report[k].kind = "success" /\ fl.data_half_gb = 0) =>
             report[k].data_text.text = "Unlimited"

\* A cap of one and a half GB is in flight to backend A as 1536 MiB.
C12_Witness ==
    /\ fl.payload.op = "addClient"
    /\ fl.data_half_gb = 3
    /\ rpc[Bot] = "req1"
    /\ fl.payload.totalGB = 1536


\* ---------------------------------------------------------------- C13
\* Plan key k is a known selector: it is in a plan table and, when it is a
\* plan of backend A, it has an inbound id.
KnownSelector(k) ==
    /\ k \in VlessPlanKeys \cup OutlinePlanKeys
    /\ k \in VlessPlanKeys => k \in DOMAIN inbound_ids

\* C13 (as the claim states it): a handler goes to a panel only for a known
\* plan selector, and a handler that rejects its selector has reported the
\* error without a login or a panel request.
C13_UnknownPlanRejected ==
    /\ Provisioning => KnownSelector(fl.plan)
    /\ \A k \in 1..Len(report) :
          report[k].kind = "rejected" =>
             /\ fpc = "done"
             /\ ev[Bot] = <<>>
             /\ fl = EmptyLocals


\* ---------------------------------------------------------------- C14
\* The handler has a login or a panel request in flight.
InFlight == rpc[Bot] \in {"login1", "req1", "login2", "req2"}

\* C14: in a batch, create_user is called for the keys 1, 2, ..., N in this
\* order, each call only when no request of the handler is in flight (the
\* one before has ended), the request in flight is the one of the key the
\* loop is at, and the successes are kept and reported in ascending order
\* of their key index.
C14_BatchIsSequential ==
    /\ [][(fl'.n_create_user # fl.n_create_user /\ fl'.n_create_user > 0) =>
             /\ fl'.n_create_user = fl.n_create_user + 1
             /\ fl'.i = fl'.n_create_user
             /\ fl'.i <= fl'.key_count
             /\ ~InFlight]_vars
    /\ []((fpc \in {"outline_inbounds", "outline_user"}) =>
             /\ fl.i = fl.n_create_user
             /\ fl.payload.op = "user" =>
                   fl.payload.username =
                      (IF fl.key_count > 1
                       THEN fl.base_username \o "_" \o ToString(fl.i)
                       ELSE fl.base_username)
             /\ \A k \in 1..Len(fl.created_users) : fl.created_users[k].i < fl.i)
    /\ [](\A j, k \in 1..Len(fl.created_users) :
             j < k => fl.created_users[j].i < fl.created_users[k].i)
    /\ [](\A k \in 1..Len(report) :
             report[k].kind = "success" /\ fl.key_count > 0 =>
                report[k].created_users = fl.created_users)

\* A batch of three keys has ended with the keys 1 and 3 created, in this
\* order, and key 2 failed.
C14_Witness ==
    /\ fpc = "done"
    /\ fl.key_count = 3
    /\ Len(fl.created_users) = 2
    /\ fl.created_users[1].i = 1
    /\ fl.created_users[2].i = 3
    /\ report[1].created_users = fl.created_users


\* ---------------------------------------------------------------- C15
\* The request attempts of task t's call that ended in a transport failure.
TransportFailures(t) == {i \in 1..Len(ev[t]) : ev[t][i].e = "resp_err"}

\* C15: a transport failure of a request attempt is the last thing its
\* _request call does (no request and no login follows it) and the call has
\* ended with the failure; and a call sends a second request only after a
\* session-invalid answer to its first one.
C15_TransportFailureEndsCall ==
    \A t \in Callers :
        /\ \A i \in TransportFailures(t) :
              /\ i = Len(ev[t])
              /\ rpc[t] = "raised"
              /\ rres[t] = "exc_transport"
        /\ \A j \in Sends(t) :
              AttemptOf(t, j) = 0 \/
                 (AttemptOf(t, j) = 1 /\ \E i \in InvalidAnswers(t) : i < j)

\* The retried request of a call ended in a transport failure.
C15_Witness ==
    \E t \in Callers :
        /\ rpc[t] = "raised"
        /\ Cardinality(Sends(t)) = 2
        /\ Len(ev[t]) \in TransportFailures(t)


\* ---------------------------------------------------------------- C16
\* C16: while create_client's request is in flight, re-sent or not, its
\* payload (identifier and inbound id) does not change; when the creation
\* was accepted create_client returns the identifier of that payload, and
\* when it was rejected with a message it returns that message.
C16_IdentifierAndMessageKept ==
    /\ [][(fpc = "vless_create" /\ fpc' = "vless_create") => fl' = fl]_vars
    /\ [][(fpc = "vless_create" /\ rpc[Bot] = "ret" /\ fpc' # fpc) =>
             IF rres[Bot] = "ok"
             THEN /\ fl'.result.success
                  /\ fl'.result.uuid = fl.payload.uuid
                  /\ fl.payload.id = fl.inbound
             ELSE /\ ~fl'.result.success
                  /\ AnswerMsg(rres[Bot]) # NoMsg =>
                        fl'.result.error = AnswerMsg(rres[Bot])]_vars

\* The creation was accepted when it was sent a second time, after a
\* session-invalid answer: create_client is about to return Success.
C16_Witness ==
    /\ fpc = "vless_create"
    /\ rpc[Bot] = "ret"
    /\ rres[Bot] = "ok"
    /\ Cardinality(Sends(Bot)) = 2


\* ---------------------------------------------------------------- C18
\* The names of the parameters in list params, in their order.
Keys(params) == [i \in 1..Len(params) |-> params[i].k]

\* The parameter names the claim lists for inbound c, in the claim's order.
ExpectedKeys(c) ==
    LET network == Get(c.network, "tcp")
        security == Get(c.security, "none")
        transport == CASE network = "ws" -> <<"path", "host">>
                       [] network = "grpc" -> <<"serviceName">>
                       [] network = "tcp" -> <<"headerType">>
        tls == <<"sni">>
               \o (IF Get(c.tls_fp, "") # "" THEN <<"fp">> ELSE <<>>)
               \o (IF \E k \in 1..Len(c.tls_alpn) : c.tls_alpn[k] # "" \/ Len(c.tls_alpn) > 1
                   THEN <<"alpn">> ELSE <<>>)
        reality == <<"sni", "fp", "pbk">>
                   \o (IF c.r_sids # <<>> /\ c.r_sids[1] # "" THEN <<"sid">> ELSE <<>>)
                   \o (IF Get(c.r_spx, "") # "" THEN <<"spx">> ELSE <<>>)
    IN  <<"type", "security">> \o transport
        \o (CASE security = "tls" -> tls
              [] security = "reality" -> reality
              [] security = "none" -> <<>>)

\* C18: for the transports tcp, ws and grpc and the securities none, tls and
\* reality, the parameters of the link that get_client_link built are, in
\* this order, type, security, the transport's parameters and the
\* security's parameters (fp and alpn of tls, sid and spx of reality only
\* when they are not empty; none for security none), and the link is
\* vless://<uuid>@<host>:<port>?<params joined by &>#<remark>.
C18_ParamsInFixedOrder ==
    (fpc = "done" /\ fl.link # "none"
     /\ Get(fl.inbound_config.network, "tcp") \in {"tcp", "ws", "grpc"}
     /\ Get(fl.inbound_config.security, "none") \in {"none", "tls", "reality"}) =>
        /\ Keys(fl.params) = ExpectedKeys(fl.inbound_config)
        /\ fl.params[1].v = Get(fl.inbound_config.network, "tcp")
        /\ fl.params[2].v = Get(fl.inbound_config.security, "none")
        /\ report[1].link = fl.link
        /\ fl.link = "vless://" \o fl.result.uuid \o "@" \o "68.183.184.161" \o ":"
                      \o ToString(Get(fl.inbound_config.port, 443)) \o "?"
                      \o ParamsStr(fl.params) \o "#"
                      \o Get(fl.inbound_config.remark, "vless")

\* A link for gRPC over Reality with a short id and a spider-x value.
C18_Witness ==
    /\ fpc = "done"
    /\ fl.inbound_config.network = Some("grpc")
    /\ fl.inbound_config.security = Some("reality")
    /\ Keys(fl.params) = <<"type", "security", "serviceName", "sni", "fp", "pbk", "sid", "spx">>
    /\ fl.link = "vless://uuid_a@68.183.184.161:8443?type=grpc&security=reality"
                  \o "&serviceName=svc&sni=r.example.com&fp=firefox&pbk=PBK&sid=ab12&spx=/#office"


\* ---------------------------------------------------------------- C19
\* C19: every call of create_user begins with a catalog request of its own,
\* holding no catalog of an earlier call; the user it submits is submitted
\* right after that request was answered and has the proxies and inbounds
\* built from that answer; and a batch of N keys has made N such calls when
\* it ends.
C19_CatalogFetchedPerCall ==
    /\ [][fl'.n_create_user = fl.n_create_user + 1 =>
             /\ fpc' = "outline_inbounds"
             /\ fl'.payload = [op |-> "inbounds"]
             /\ rpc'[Bot] \in {"login1", "req1"}
             /\ fl'.inbounds = EmptyCatalog
             /\ fl'.inbounds_answer = "none"]_vars
    /\ [][(fpc' = "outline_user" /\ fpc # "outline_user") =>
             /\ fpc = "outline_inbounds"
             /\ rpc[Bot] = "ret"
             /\ fl'.n_create_user = fl.n_create_user
             /\ fl'.inbounds_answer = rres[Bot]
             /\ fl'.payload.proxies = BuildProxyConfig(fl'.inbounds).proxies
             /\ fl'.payload.inbounds = BuildProxyConfig(fl'.inbounds).inbounds]_vars
    /\ []((fpc = "done" /\ fl.key_count > 0) => fl.n_create_user = fl.key_count)

\* The second key of a batch is being submitted with the proxies of the
\* catalog its own request was answered with, after the first was created.
C19_Witness ==
    /\ fpc = "outline_user"
    /\ fl.i = 2
    /\ Len(fl.created_users) = 1
    /\ fl.inbounds_answer = "ok"
    /\ Present(fl.inbounds) = {"vmess"}
    /\ DOMAIN fl.payload.proxies = {"vmess"}


\* ---------------------------------------------------------------- C20
\* URL u is absolute: it begins with a scheme and "://".
IsAbsolute(u) == Len(u) >= 2 /\ u[1] \in {"http", "https"} /\ u[2] = "://"

\* C20 (as the claim states it): the subscription URL of the last created
\* user is empty or absolute; it is the answer's URL behind the panel's base
\* address when that was a relative path, and the answer's URL itself when
\* that was absolute; normalising it again changes nothing; and the links
\* and the username are the answer's links and the submitted username.
C20_SubscriptionUrlAbsolute ==
    fl.created_users # <<>> =>
        LET res == fl.created_users[Len(fl.created_users)]
            given == Get(fl.user_info.subscription_url, <<>>)
        IN  /\ res.subscription_url = <<>> \/ IsAbsolute(res.subscription_url)
            /\ (given # <<>> /\ ~IsAbsolute(given)) =>
                  res.subscription_url = MARZBAN_PANEL_URL \o given
            /\ IsAbsolute(given) => res.subscription_url = given
            /\ NormalizeSubscriptionUrl(res.subscription_url) = res.subscription_url
            /\ res.links = Get(fl.user_info.links, <<>>)
            /\ res.username =
                  (IF fl.key_count > 1
                   THEN fl.base_username \o "_" \o ToString(res.i)
                   ELSE fl.base_username)


\* ---------------------------------------------------------------- C21
\* The expiry of a call read at fl.now for fl.expiry_days days, in
\* thousandths of the time unit.
ExpiryInMillis == fl.now + fl.expiry_days * SecondsPerDay * MillisPerSecond

\* C21: the creation payload of backend A carries as expiryTime the
\* milliseconds of (now + expiryDays days); the one of backend B carries as
\* expire the whole seconds of (now + expiryDays days), with the reset
\* strategy "no_reset" and the status "active"; and when now is a whole
\* number of seconds, the value of backend A is 1000 times the value that
\* backend B gets for the same now and days.
C21_ExpiryOnBothBackends ==
    /\ fl.payload.op = "addClient" =>
          /\ fl.payload.expiryTime = ExpiryInMillis
          /\ fl.now % MillisPerSecond = 0 =>
                fl.payload.expiryTime =
                   1000 * ((fl.now \div 1000) + fl.expiry_days * SecondsPerDay)
    /\ fl.payload.op = "user" =>
          /\ fl.payload.expire * 1000 <= ExpiryInMillis
          /\ ExpiryInMillis < (fl.payload.expire + 1) * 1000
          /\ fl.now % MillisPerSecond = 0 => fl.payload.expire * 1000 = ExpiryInMillis
          /\ fl.payload.data_limit_reset_strategy = "no_reset"
          /\ fl.payload.status = "active"

\* A creation of 30 days read at a whole second is in flight to backend A.
C21_Witness ==
    /\ fl.payload.op = "addClient"
    /\ rpc[Bot] = "req1"
    /\ fl.now = 17000
    /\ fl.expiry_days = 30
    /\ fl.payload.expiryTime = 25937000


\* ---------------------------------------------------------------- C22
\* A step in which a handler takes an update sent by user u.
UpdateBy(u) ==
    \/ \E d \in ButtonData : button_callback(u, d)
    \/ \E x \in Texts : handle_text(u, x)
    \/ \E a \in QuickArgs : quick_create_vless(u, a)
    \/ \E a \in QuickArgs : quick_create_outline(u, a)

\* C22: a step that takes the update of a user who is no admin starts no
\* login and no request on either panel and leaves the pending selection,
\* the sessions and the clients' calls as they were; a provisioning starts,
\* and the pending selection changes, only in a step that takes an admin's
\* update; and a login or a request is in flight only while a handler that
\* such a step started awaits a panel.
C22_OnlyAdminsReachPanels ==
    /\ [][\A u \in Users \ ADMIN_IDS :
             UpdateBy(u) => (UNCHANGED <<ud, execVars>> /\ ~Provisioning')]_vars
    /\ [][((~Provisioning /\ Provisioning') \/ ud' # ud) =>
             \E u \in ADMIN_IDS : UpdateBy(u)]_vars
    /\ [](rpc[Bot] # "idle" => Provisioning)

\* A user who is no admin was denied while a plan selection was pending.
C22_Witness ==
    /\ fpc = "done"
    /\ report[1].kind = "denied"
    /\ ud.action = "vless_create"


\* ---------------------------------------------------------------- C23
\* C23 (as the claim states it): a call that handles a session-invalid
\* answer discards the stored session only when it is the session value its
\* rejected request carried; a session that another caller has installed
\* since is left in place.
C23_DiscardOnlyOwnSession ==
    [][\A t \in Callers :
          (rpc[t] = "req1" /\ rpc'[t] = "login2") =>
             \/ session[tb[t]] = carried[t]
             \/ session'[tb[t]] = session[tb[t]]]_vars


\* ---------------------------------------------------------------- C24
\* The events with which a call records a rejection that is not about the
\* session.
OtherRejections == {"resp_rej", "resp_rej_login_text", "resp_rej_nomsg"}

\* C24 (as the claim states it): when the first submission of a creation
\* on backend A was rejected for a reason other than the session, with
\* whatever message, no login and no second submission follows it.
C24_RejectedCreationSentOnce ==
    fpc = "vless_create" =>
        \A i \in 1..Len(ev[Bot]) :
            (ev[Bot][i].e \in OtherRejections /\ AttemptOf(Bot, i) = 1) =>
                /\ After(Bot, i, "login") = {}
                /\ After(Bot, i, "send") = {}


\* ---------------------------------------------------------------- C25
\* C25 (as the claim states it): every login that reports success has
\* stored a non-empty session, and every request a call sends carries a
\* non-empty session value.
C25_SentSessionNonEmpty ==
    \A t \in Callers :
        \A i \in 1..Len(ev[t]) :
            ev[t][i].e \in {"login_ok", "send"} => ev[t][i].s # NoSession


\* ---------------------------------------------------------------- C26
\* A step in which handle_text takes a text message.
TextUpdate == \E u \in Users, x \in Texts : handle_text(u, x)

\* A step in which a quick command is taken.
QuickUpdate ==
    \E u \in Users, a \in QuickArgs :
        quick_create_vless(u, a) \/ quick_create_outline(u, a)

\* A step in which an admin presses a plan button.
PlanButtonUpdate ==
    \E u \in ADMIN_IDS, d \in VlessPlanKeys \cup OutlinePlanKeys : button_callback(u, d)

\* C26: while a handler awaits a panel, from its first network call on, no
\* selection is pending; a provisioning starts only in a step that is a
\* quick command or that finds a pending action, and leaves none pending; a
\* text message that finds no pending action starts no provisioning and
\* changes nothing of the selection and of the clients; and a pending action
\* is set only by a plan button.
C26_OneAttemptPerSelection ==
    /\ [](Provisioning => ud = NoPending)
    /\ [][(~Provisioning /\ Provisioning') =>
             /\ ud' = NoPending
             /\ QuickUpdate \/ (TextUpdate /\ ud.action # "none")]_vars
    /\ [][(TextUpdate /\ ud.action = "none") =>
             (~Provisioning' /\ UNCHANGED <<ud, execVars>>)]_vars
    /\ [][(ud'.action # ud.action /\ ud'.action # "none") => PlanButtonUpdate]_vars

\* After a provisioning on backend B has ended, three updates have been
\* handled and neither a selection nor a handler is left.
C26_Witness ==
    /\ fpc = "idle"
    /\ updates = 3
    /\ ud = NoPending
    /\ session["marzban"] # NoSession
    /\ session["vless"] = NoSession


\* ---------------------------------------------------------------- C27
\* The panel has accepted every login of task t's call, with a session, and
\* has accepted every request of the call that carried a session it still
\* holds valid: the only other answer is a session-invalid rejection of a
\* session that no login of this call has issued (a stale stored one).
PanelAccepts(t) ==
    \A i \in 1..Len(ev[t]) :
        /\ ev[t][i].e \notin {"login_fail", "resp_err"} \cup OtherRejections
        /\ ev[t][i].e = "login_ok" => ev[t][i].s # NoSession
        /\ ev[t][i].e = "resp_expired" =>
              \A j \in 1..(i - 1) :
                  ev[t][j].e = "login_ok" => ev[t][j].s # ev[t][i].s

\* C27: whatever the calls before it have left in the client, a call during
\* which the panel accepts logins and requests makes at most 2 logins and
\* sends at most 2 requests, waits for nothing but the panel, and when it
\* has ended it has returned the accepted answer.
C27_RecoversWhenPanelAccepts ==
    \A t \in Callers :
        (PanelAccepts(t) /\ rpc[t] # "idle") =>
            /\ Cardinality(Logins(t)) <= 2
            /\ Cardinality(Sends(t)) <= 2
            /\ rpc[t] \in {"login1", "req1", "login2", "req2", "ret"}
            /\ rpc[t] = "ret" => rres[t] = "ok"

\* A call ended with two session-invalid answers and left its second
\* session stored; the next call, sent with that session, was rejected
\* once, logged in again and was accepted.
C27_Witness ==
    \E t, u \in Callers :
        /\ t # u
        /\ rpc[u] = "ret"
        /\ Cardinality(InvalidAnswers(u)) = 2
        /\ PanelAccepts(t)
        /\ rpc[t] = "ret"
        /\ rres[t] = "ok"
        /\ Cardinality(Sends(t)) = 2
        /\ ev[t][1] = Ev("send", ev[u][Len(ev[u])].s)


\* ---------------------------------------------------------------- C28
\* The events of an answer without the session-invalid signal, and of a
\* transport error.
NoSignalAnswers == {"resp_ok", "resp_rej", "resp_rej_nomsg", "resp_err"}

\* Task t's call was made with a stored session and its request was
\* answered without the session-invalid signal or failed in transport.
PlainCall(t) ==
    /\ Len(ev[t]) >= 2
    /\ ev[t][1].e = "send"
    /\ ev[t][2].e \in NoSignalAnswers

\* In this step task t's call records, as the k-th new event, one of kinds.
Records(t, k, kinds) ==
    /\ Len(ev'[t]) >= Len(ev[t]) + k
    /\ ev'[t][Len(ev[t]) + k].e \in kinds

\* C28: the stored session changes only in a step in which a login of some
\* call succeeds or in which a call discards it after a session-invalid
\* answer; a call made with a stored session and answered without that
\* signal, or failed in transport, has ended after exactly one request and
\* no login, and the step that ended it left the stored session unchanged.
C28_SessionFrame ==
    /\ [][session' # session =>
             \E t \in Callers :
                \/ /\ rpc[t] \in {"login1", "login2"}
                   /\ Records(t, 1, {"login_ok"})
                \/ /\ rpc[t] = "req1"
                   /\ Records(t, 1, SessionInvalidEvents)
                   /\ Records(t, 2, {"discard"})]_vars
    /\ [](\A t \in Callers :
             PlainCall(t) =>
                /\ Len(ev[t]) = 2
                /\ Ended(t)
                /\ Logins(t) = {}
                /\ Cardinality(Sends(t)) = 1)
    /\ [][\A t \in Callers :
             (rpc[t] = "req1" /\ ev[t][1].e = "send" /\ rpc'[t] \in {"ret", "raised"}) =>
                session' = session]_vars

\* A call made with a stored session failed in transport: it has raised
\* after its one request and the client holds the session it was sent with.
C28_Witness ==
    \E t \in Callers :
        /\ rpc[t] = "raised"
        /\ ev[t] = <<Ev("send", session[tb[t]]), Ev("resp_err", session[tb[t]])>>
        /\ session[tb[t]] # NoSession


\* ---------------------------------------------------------------- C29
\* C29: the usernames that a batch has passed to create_user are pairwise
\* distinct; the k-th is <base>_<k> when the plan has several keys and
\* <base> when it has one, where <base> is the base name the handler
\* computed before the loop, which does not change while the batch runs;
\* the user submitted to the panel has the username of the current key; and
\* a batch that has ended has passed as many usernames as the plan has keys.
C29_BatchUsernamesDistinct ==
    /\ [](\A j, k \in 1..Len(fl.submitted) :
             j # k => fl.submitted[j] # fl.submitted[k])
    /\ [](\A k \in 1..Len(fl.submitted) :
             fl.submitted[k] =
                (IF fl.key_count > 1 THEN fl.base_username \o "_" \o ToString(k)
                 ELSE fl.base_username))
    /\ [](Len(fl.submitted) = fl.n_create_user)
    /\ [](fl.payload.op = "user" =>
             fl.payload.username = fl.submitted[Len(fl.submitted)])
    /\ [][(fl.base_username # "none" /\ fpc' # "idle") =>
             fl'.base_username = fl.base_username]_vars
    /\ []((fpc = "done" /\ fl.key_count > 0) => Len(fl.submitted) = fl.key_count)

\* A batch of three keys has ended: it has passed name_1_1, name_1_2 and
\* name_1_3.
C29_Witness ==
    /\ fpc = "done"
    /\ fl.key_count = 3
    /\ fl.base_username = "name_1"
    /\ fl.submitted = <<"name_1_1", "name_1_2", "name_1_3">>

====
